---- MODULE Spec2Model ----
(***************************************************************************)
(* Donation lifecycle of fredxotic/foodloop: the Donation row, the         *)
(* DonationService operations that mutate it under a row lock, the         *)
(* periodic expiry sweep, the donor dashboard's expiry refresh and the     *)
(* owner's REST update.  Requests run concurrently; each action is one     *)
(* database access of a request (locking read, plain read, write+commit).  *)
(***************************************************************************)
EXTENDS Integers, Naturals, Sequences, FiniteSets, TLC

\* ------------------------------------------------------------------ bounds
MaxTime == 2
MaxDonations == 1
MaxReq == 2
MaxUpdates == 1

\* ------------------------------------------------------- program constants
MAX_ACTIVE_CLAIMS == 5

AVAILABLE == "available"
CLAIMED == "claimed"
COMPLETED == "completed"
CANCELLED == "cancelled"
EXPIRED == "expired"
DONOR == "donor"
RECIPIENT == "recipient"

STATUS_CHOICES == {AVAILABLE, CLAIMED, COMPLETED, CANCELLED, EXPIRED}

\* ------------------------------------------------------------------ values
NULL == -1
NoUser == "nobody"
ABSENT == "absent"

Users == {"D1", "D2", "R1", "R2", "R3"}

\* UserProfile rows: D1 is a verified donor, D2 an unverified donor,
\* R1 and R2 verified recipients, R3 an unverified recipient.
UserProfile ==
  [u \in Users |->
     [user_type |-> IF u \in {"D1", "D2"} THEN DONOR ELSE RECIPIENT,
      email_verified |-> u \in {"D1", "R1", "R2"}]]

MaxIds == MaxDonations + MAX_ACTIVE_CLAIMS
DonationIds == 1..MaxIds
ReqIds == 1..MaxReq

NoRow ==
  [donor |-> NoUser, recipient |-> NoUser, status |-> ABSENT,
   expiry_datetime |-> 0, pickup_end |-> 0,
   claimed_at |-> NULL, completed_at |-> NULL]

EmptyTable == [d \in DonationIds |-> NoRow]

Idle ==
  [op |-> "idle", user |-> NoUser, d |-> 0, pc |-> "idle",
   snap |-> NoRow]

NoResp == [op |-> "none", success |-> FALSE, msg |-> ""]

\* the call of a read-only function: its arguments and, once it has returned,
\* its result
NoCall == [fn |-> "none"]

VARIABLES now, db, req, resp, ratings, call

vars == <<now, db, req, resp, ratings, call>>

\* ----------------------------------------------------------------- helpers
Exists(d) == db[d].status # ABSENT

\* Donation.is_expired / Donation.is_pickup_overdue on a loaded instance
is_expired(row, t) == t >= row.expiry_datetime

\* the pickup check reading the expiry instead of the pickup window end
is_pickup_overdue_by_expiry(row, t) == t > row.expiry_datetime

is_pickup_overdue(row, t) == t > row.pickup_end

\* Donation.objects.filter(recipient=u, status=CLAIMED).count()
active_claims(u) ==
  Cardinality({d \in DonationIds : db[d].recipient = u /\ db[d].status = CLAIMED})

\* select_for_update(): the row lock is held by a request from its locking
\* read until its transaction ends.
Locked(d) ==
  \E r \in ReqIds : req[r].op \in {"claim", "complete", "cancel"} /\ req[r].d = d

\* the read without select_for_update(): it never waits
CanLock_unlocked(d) == TRUE

CanLock(d) == ~Locked(d)

FreeSlot(r) ==
  /\ req[r].op = "idle"
  /\ \A q \in ReqIds : q < r => req[q].op # "idle"

\* ServiceResponse(success, message) of the call that returns in this step
Response(op, ok, msg) ==
  [op |-> op, success |-> ok, msg |-> msg]

\* an exception that leaves the service method: the caller gets no
\* ServiceResponse
handle_exception_reraise(op, context, exc) ==
  [op |-> "exception", success |-> FALSE, msg |-> exc]

\* BaseService.handle_exception for a ValidationError raised with message exc:
\* the handler answers with an error response, it does not raise
handle_exception(op, context, exc) ==
  Response(op, FALSE, context \o ": Validation error - ['" \o exc \o "']")

completed_message == "Donation completed successfully. Please rate your experience!"

\* ------------------------------------------------------------------- clock
Tick ==
  /\ now < MaxTime
  /\ now' = now + 1
  /\ resp' = NoResp
  /\ UNCHANGED <<db, req, ratings, call>>

\* ------------------------------------------------------------ create_donation
\* the donor check without the email verification check
validate_donor_eligibility_role_only(u) ==
  IF UserProfile[u].user_type # DONOR THEN "Only donors can create donations"
  ELSE ""

\* DonationService._validate_donor_eligibility: error message, or "" for None
validate_donor_eligibility(u) ==
  IF UserProfile[u].user_type # DONOR THEN "Only donors can create donations"
  ELSE IF ~UserProfile[u].email_verified
       THEN "Please verify your email before creating donations"
  ELSE ""

\* DonationService._build_donation_instance: status takes the model default,
\* recipient, claimed_at and completed_at are left null.
build_donation_instance(u, expiry, pend) ==
  [donor |-> u, recipient |-> NoUser, status |-> AVAILABLE,
   expiry_datetime |-> expiry, pickup_end |-> pend,
   claimed_at |-> NULL, completed_at |-> NULL]

\* form_data['pickup_start'] of every modelled request
PickupStart == 0

\* <<expiry_datetime, pickup_end>> offered in request data: a donation that
\* expires at time 1, and one that never expires within the clock's range
\* but whose pickup window ends at time 1.
TimeInputs == {<<1, 1>>, <<MaxTime + 1, 1>>}

NextId == IF \E d \in DonationIds : ~Exists(d)
          THEN CHOOSE d \in DonationIds :
                 ~Exists(d) /\ \A e \in DonationIds : e < d => Exists(e)
          ELSE 0

create_donation(u, expiry, pend) ==
  LET err == validate_donor_eligibility(u) IN
  /\ NextId # 0 /\ NextId <= MaxDonations
  /\ IF err # ""
     THEN /\ resp' = Response("create", FALSE, err)
          /\ UNCHANGED db
     ELSE /\ db' = [db EXCEPT ![NextId] = build_donation_instance(u, expiry, pend)]
          /\ resp' = Response("create", TRUE, "Donation created successfully")
  /\ UNCHANGED <<now, req, ratings, call>>

\* ------------------------------------------------------------- claim_donation
\* f"You have reached the maximum of {cls.MAX_ACTIVE_CLAIMS} active claims"
quota_message ==
  "You have reached the maximum of " \o ToString(MAX_ACTIVE_CLAIMS) \o " active claims"

\* the eligibility check with the quota compared by > instead of >=
validate_claim_eligibility_gt(row, u, t) ==
  IF UserProfile[u].user_type # RECIPIENT THEN "Only recipients can claim donations"
  ELSE IF ~UserProfile[u].email_verified
       THEN "Please verify your email before claiming donations"
  ELSE IF row.status # AVAILABLE THEN "This donation is " \o row.status
  ELSE IF is_expired(row, t) THEN "This donation has expired"
  ELSE IF is_pickup_overdue(row, t) THEN "The pickup window has passed"
  ELSE IF active_claims(u) > MAX_ACTIVE_CLAIMS
       THEN quota_message
  ELSE ""

\* DonationService._validate_claim_eligibility on the locked instance
validate_claim_eligibility(row, u, t) ==
  IF UserProfile[u].user_type # RECIPIENT THEN "Only recipients can claim donations"
  ELSE IF ~UserProfile[u].email_verified
       THEN "Please verify your email before claiming donations"
  ELSE IF row.status # AVAILABLE THEN "This donation is " \o row.status
  ELSE IF is_expired(row, t) THEN "This donation has expired"
  ELSE IF is_pickup_overdue(row, t) THEN "The pickup window has passed"
  ELSE IF active_claims(u) >= MAX_ACTIVE_CLAIMS
       THEN quota_message
  ELSE ""

\* Donation.claim with claimed_at left out of update_fields
Donation_claim_two_fields(row, u, t) ==
  IF row.status # AVAILABLE
  THEN [raised |-> TRUE, exc |-> "This donation is not available", saved |-> {}, row |-> row]
  ELSE IF is_expired(row, t)
  THEN [raised |-> TRUE, exc |-> "This donation has expired", saved |-> {"all"},
        row |-> [row EXCEPT !.status = EXPIRED]]
  ELSE [raised |-> FALSE, exc |-> "", saved |-> {"recipient", "status"},
        row |-> [row EXCEPT !.recipient = u, !.status = CLAIMED, !.claimed_at = t]]

\* Donation.claim(user) on a loaded instance: the fields it assigns and whether
\* it raises ValidationError.  `saved` are the columns its save() writes.
Donation_claim(row, u, t) ==
  IF row.status # AVAILABLE
  THEN [raised |-> TRUE, exc |-> "This donation is not available", saved |-> {}, row |-> row]
  ELSE IF is_expired(row, t)
  THEN [raised |-> TRUE, exc |-> "This donation has expired", saved |-> {"all"},
        row |-> [row EXCEPT !.status = EXPIRED]]
  ELSE [raised |-> FALSE, exc |-> "", saved |-> {"recipient", "status", "claimed_at"},
        row |-> [row EXCEPT !.recipient = u, !.status = CLAIMED, !.claimed_at = t]]

\* Model.save(update_fields=...) applied to the stored row
SaveFields(stored, inst, fields) ==
  IF "all" \in fields THEN inst
  ELSE [f \in DOMAIN stored |-> IF f \in fields THEN inst[f] ELSE stored[f]]

\* with transaction.atomic(): the row as committed when the block is left;
\* leaving it by an exception rolls every write of the block back.
atomic_commit(stored, c) ==
  IF c.raised THEN stored ELSE SaveFields(stored, c.row, c.saved)

\* lines 106-116: Donation.objects.select_for_update().get(id=d) raises
\* DoesNotExist or waits for the row lock and loads the row; then the profile
\* lookup and the eligibility check.  An error returns at once and ends the
\* transaction without a write; otherwise the request goes on holding the lock.
ClaimBegin(r, u, d) ==
  /\ FreeSlot(r)
  /\ IF ~Exists(d)
     THEN /\ resp' = Response("claim", FALSE, "Donation not found")
          /\ UNCHANGED req
     ELSE /\ CanLock(d)
          /\ LET err == validate_claim_eligibility(db[d], u, now) IN
             IF err # ""
             THEN /\ resp' = Response("claim", FALSE, err)
                  /\ UNCHANGED req
             ELSE /\ req' = [req EXCEPT ![r] =
                               [Idle EXCEPT !.op = "claim", !.user = u, !.d = d,
                                            !.pc = "validated", !.snap = db[d]]]
                  /\ resp' = NoResp
  /\ UNCHANGED <<now, db, ratings, call>>

\* lines 118-143: Donation.claim, notifications, commit.  A ValidationError
\* raised by Donation.claim leaves transaction.atomic() by exception, so every
\* write of the transaction is rolled back.
ClaimCommit(r) ==
  /\ req[r].op = "claim" /\ req[r].pc = "validated"
  /\ LET u == req[r].user
         d == req[r].d
         c == Donation_claim(req[r].snap, u, now) IN
     /\ db' = [db EXCEPT ![d] = atomic_commit(db[d], c)]
     /\ resp' = IF c.raised
                THEN handle_exception("claim", "donation claim", c.exc)
                ELSE Response("claim", TRUE, "Donation claimed successfully")
  /\ req' = [req EXCEPT ![r] = Idle]
  /\ UNCHANGED <<now, ratings, call>>

\* ---------------------------------------------------------- complete_donation
\* Donation.complete() on a loaded instance
Donation_complete(row, t) ==
  IF row.status # CLAIMED
  THEN [raised |-> TRUE, exc |-> "Only claimed donations can be completed",
        saved |-> {}, row |-> row]
  ELSE [raised |-> FALSE, exc |-> "", saved |-> {"status", "completed_at"},
        row |-> [row EXCEPT !.status = COMPLETED, !.completed_at = t]]

\* the checks of complete_donation without the donor-or-recipient check
validate_complete_status_only(row, u) ==
  IF row.status # CLAIMED THEN "Only claimed donations can be completed"
  ELSE ""

\* lines 189-195: the checks complete_donation makes before Donation.complete
validate_complete(row, u) ==
  IF u # row.donor /\ u # row.recipient
  THEN "You are not authorized to complete this donation"
  ELSE IF row.status # CLAIMED THEN "Only claimed donations can be completed"
  ELSE ""

\* complete_donation without either status check: any caller who is the donor
\* or the recipient marks the donation Completed
complete_donation_any_status(u, d) ==
  /\ IF ~Exists(d)
     THEN /\ resp' = Response("complete", FALSE, "Donation not found")
          /\ UNCHANGED db
     ELSE /\ CanLock(d)
          /\ IF u # db[d].donor /\ u # db[d].recipient
             THEN /\ resp' = Response("complete", FALSE,
                                      "You are not authorized to complete this donation")
                  /\ UNCHANGED db
             ELSE /\ db' = [db EXCEPT ![d] = [db[d] EXCEPT !.status = COMPLETED,
                                                           !.completed_at = now]]
                  /\ resp' = Response("complete", TRUE, completed_message)
  /\ UNCHANGED <<now, req, ratings, call>>

\* The whole handler: it reads and writes only the row it has locked, so it
\* takes effect at one instant once it holds the row lock.
complete_donation(u, d) ==
  /\ IF ~Exists(d)
     THEN /\ resp' = Response("complete", FALSE, "Donation not found")
          /\ UNCHANGED db
     ELSE /\ CanLock(d)
          /\ LET err == validate_complete(db[d], u)
                 c == Donation_complete(db[d], now) IN
             IF err # ""
             THEN /\ resp' = Response("complete", FALSE, err)
                  /\ UNCHANGED db
             ELSE /\ db' = [db EXCEPT ![d] = atomic_commit(db[d], c)]
                  /\ resp' = IF c.raised
                             THEN handle_exception("complete", "donation completion", c.exc)
                             ELSE Response("complete", TRUE, completed_message)
  /\ UNCHANGED <<now, req, ratings, call>>

\* ------------------------------------------------------------ cancel_donation
\* Donation.cancel() refusing only Completed donations
Donation_cancel_completed_only(row) ==
  IF row.status = COMPLETED
  THEN [raised |-> TRUE, exc |-> "Cannot cancel " \o row.status \o " donation",
        saved |-> {}, row |-> row]
  ELSE [raised |-> FALSE, exc |-> "", saved |-> {"status"},
        row |-> [row EXCEPT !.status = CANCELLED]]

\* Donation.cancel() on a loaded instance
Donation_cancel(row) ==
  IF row.status \in {COMPLETED, EXPIRED}
  THEN [raised |-> TRUE, exc |-> "Cannot cancel " \o row.status \o " donation",
        saved |-> {}, row |-> row]
  ELSE [raised |-> FALSE, exc |-> "", saved |-> {"status"},
        row |-> [row EXCEPT !.status = CANCELLED]]

\* the checks of cancel_donation without the donor check
validate_cancel_status_only(row, u) ==
  IF row.status = COMPLETED THEN "Cannot cancel completed donations"
  ELSE ""

\* lines 394-400: the checks cancel_donation makes before Donation.cancel
validate_cancel(row, u) ==
  IF u # row.donor THEN "Only the donor can cancel this donation"
  ELSE IF row.status = COMPLETED THEN "Cannot cancel completed donations"
  ELSE ""

\* The whole handler, under the row lock as complete_donation.
cancel_donation(u, d) ==
  /\ IF ~Exists(d)
     THEN /\ resp' = Response("cancel", FALSE, "Donation not found")
          /\ UNCHANGED db
     ELSE /\ CanLock(d)
          /\ LET err == validate_cancel(db[d], u)
                 c == Donation_cancel(db[d]) IN
             IF err # ""
             THEN /\ resp' = Response("cancel", FALSE, err)
                  /\ UNCHANGED db
             ELSE /\ db' = [db EXCEPT ![d] = atomic_commit(db[d], c)]
                  /\ resp' = IF c.raised
                             THEN handle_exception("cancel", "donation cancellation", c.exc)
                             ELSE Response("cancel", TRUE,
                                           "Donation cancelled successfully")
  /\ UNCHANGED <<now, req, ratings, call>>

\* ----------------------------------------------------- mark_expired_donations
\* One UPDATE ... WHERE status = 'available' AND expiry_datetime < now.  The
\* statement waits for the row locks of the rows it matches.
SweepMatches_any_status(d) ==
  Exists(d) /\ db[d].status # EXPIRED /\ db[d].expiry_datetime < now

SweepMatches(d) ==
  db[d].status = AVAILABLE /\ db[d].expiry_datetime < now

\* the sweep with the comparison reversed: expiry_datetime__gt=now
mark_expired_donations_gt ==
  /\ \A d \in DonationIds :
       (db[d].status = AVAILABLE /\ db[d].expiry_datetime > now) => ~Locked(d)
  /\ db' = [d \in DonationIds |->
              IF db[d].status = AVAILABLE /\ db[d].expiry_datetime > now
              THEN [db[d] EXCEPT !.status = EXPIRED] ELSE db[d]]
  /\ resp' = NoResp
  /\ UNCHANGED <<now, req, ratings, call>>

mark_expired_donations ==
  /\ \A d \in DonationIds : SweepMatches(d) => ~Locked(d)
  /\ db' = [d \in DonationIds |->
              IF SweepMatches(d) THEN [db[d] EXCEPT !.status = EXPIRED] ELSE db[d]]
  /\ resp' = NoResp
  /\ UNCHANGED <<now, req, ratings, call>>

\* ------------------------------------------------------------ donor_dashboard
\* @donor_required: the view body runs only for a verified donor
donor_required(u) ==
  UserProfile[u].user_type = DONOR /\ UserProfile[u].email_verified

\* line 435: the rows of the donor's queryset that the loop saves
DashboardWrites(u, d) ==
  /\ db[d].status # ABSENT /\ db[d].donor = u
  /\ is_expired(db[d], now) /\ db[d].status # EXPIRED

\* lines 431-437: for every donation of the donor that is past its expiry and
\* not yet Expired, status = EXPIRED and donation.save() (every column of the
\* loaded instance).  The saves wait for the row locks.
donor_dashboard(u) ==
  /\ donor_required(u)
  /\ \A d \in DonationIds : DashboardWrites(u, d) => ~Locked(d)
  /\ db' = [d \in DonationIds |->
              IF DashboardWrites(u, d)
              THEN SaveFields(db[d], [db[d] EXCEPT !.status = EXPIRED], {"all"})
              ELSE db[d]]
  /\ resp' = NoResp
  /\ UNCHANGED <<now, req, ratings, call>>

\* ------------------------------------- DonationViewSet.update / partial_update
\* IsAuthenticated: a request without credentials comes from no user
is_authenticated(u) == u \in Users

\* the users a REST request can come from, and the request without credentials
Callers == Users \cup {NoUser}

\* IsDonorOrReadOnly.has_permission for PUT/PATCH/DELETE
has_permission(u) == UserProfile[u].user_type = DONOR

\* IsDonorOrReadOnly.has_object_permission for PUT/PATCH/DELETE
has_object_permission(row, u) == row.donor = u

\* the checks of update without the status check
validate_update_owner_only(row, u) ==
  IF row.donor # u THEN "You do not have permission to update this donation"
  ELSE IF UserProfile[u].user_type # DONOR THEN "Only donors can update donations"
  ELSE ""

\* lines 133-155: the checks update makes on the loaded instance
validate_update(row, u) ==
  IF row.donor # u THEN "You do not have permission to update this donation"
  ELSE IF UserProfile[u].user_type # DONOR THEN "Only donors can update donations"
  ELSE IF row.status \in {COMPLETED, CANCELLED} THEN "Cannot update " \o row.status \o " donations"
  ELSE ""

\* update with neither the object permission nor the ownership check: any
\* donor may edit any donation that is not Completed or Cancelled
UpdateLoad_any_donor(r, u, d) ==
  /\ FreeSlot(r)
  /\ Cardinality({q \in ReqIds : req[q].op = "update"}) < MaxUpdates
  /\ IF ~is_authenticated(u)
     THEN /\ resp' = Response("update", FALSE, "not authenticated")
          /\ UNCHANGED req
     ELSE IF ~has_permission(u)
     THEN /\ resp' = Response("update", FALSE, "permission denied")
          /\ UNCHANGED req
     ELSE IF ~Exists(d)
     THEN /\ resp' = Response("update", FALSE, "Donation not found")
          /\ UNCHANGED req
     ELSE IF db[d].status \in {COMPLETED, CANCELLED}
     THEN /\ resp' = Response("update", FALSE, "Cannot update " \o db[d].status \o " donations")
          /\ UNCHANGED req
     ELSE /\ req' = [req EXCEPT ![r] =
                       [Idle EXCEPT !.op = "update", !.user = u, !.d = d,
                                    !.pc = "loaded", !.snap = db[d]]]
          /\ resp' = NoResp
  /\ UNCHANGED <<now, db, ratings, call>>

\* The permission classes, get_object() and the checks: a plain read, no row
\* lock.  The request data edits columns the model does not carry (title,
\* description, quantity).  PUT (update) and PATCH (partial_update) make the
\* same checks and the same save.
UpdateLoad(r, u, d) ==
  /\ FreeSlot(r)
  /\ Cardinality({q \in ReqIds : req[q].op = "update"}) < MaxUpdates
  /\ IF ~is_authenticated(u)
     THEN /\ resp' = Response("update", FALSE, "not authenticated")
          /\ UNCHANGED req
     ELSE IF ~has_permission(u)
     THEN /\ resp' = Response("update", FALSE, "permission denied")
          /\ UNCHANGED req
     ELSE IF ~Exists(d)
     THEN /\ resp' = Response("update", FALSE, "Donation not found")
          /\ UNCHANGED req
     ELSE IF ~has_object_permission(db[d], u)
     THEN /\ resp' = Response("update", FALSE, "permission denied")
          /\ UNCHANGED req
     ELSE IF validate_update(db[d], u) # ""
     THEN /\ resp' = Response("update", FALSE, validate_update(db[d], u))
          /\ UNCHANGED req
     ELSE /\ req' = [req EXCEPT ![r] =
                       [Idle EXCEPT !.op = "update", !.user = u, !.d = d,
                                    !.pc = "loaded", !.snap = db[d]]]
          /\ resp' = NoResp
  /\ UNCHANGED <<now, db, ratings, call>>

\* serializer.save(): ModelSerializer.update calls instance.save() on the
\* loaded instance, which writes every column.
\* Building the response then calls obj.get_time_until_expiry(), which the
\* model does not define, so the handler answers 500 after the save.
UpdateSave(r) ==
  /\ req[r].op = "update" /\ req[r].pc = "loaded"
  /\ ~Locked(req[r].d)
  /\ db' = [db EXCEPT ![req[r].d] =
              SaveFields(db[req[r].d], req[r].snap, {"all"})]
  /\ resp' = Response("update", FALSE, "Failed to update donation")
  /\ req' = [req EXCEPT ![r] = Idle]
  /\ UNCHANGED <<now, ratings, call>>

\* -------------------------------------------------------------- specification
\* ids a request may name: every stored donation and one id that is not stored
TargetIds == {d \in DonationIds : Exists(d) \/ d = NextId}

Init ==
  /\ now = 0
  /\ db = EmptyTable
  /\ req = [r \in ReqIds |-> Idle]
  /\ resp = NoResp
  /\ ratings = {}
  /\ call = NoCall

Create == \E u \in Users, t \in TimeInputs : create_donation(u, t[1], t[2])

Claim ==
  \/ \E r \in ReqIds, u \in Users, d \in TargetIds : ClaimBegin(r, u, d)
  \/ \E r \in ReqIds : ClaimCommit(r)

Complete == \E u \in Users, d \in TargetIds : complete_donation(u, d)

Cancel == \E u \in Users, d \in TargetIds : cancel_donation(u, d)

Dashboard == \E u \in Users : donor_dashboard(u)

Update ==
  \/ \E r \in ReqIds, u \in Users, d \in TargetIds : UpdateLoad(r, u, d)
  \/ \E r \in ReqIds : UpdateSave(r)

\* the service-layer lifecycle: create, claim, complete, cancel, expiry sweep
NextLifecycle ==
  \/ Tick
  \/ Create
  \/ Claim
  \/ Complete
  \/ Cancel
  \/ mark_expired_donations

SpecLifecycle == Init /\ [][NextLifecycle]_vars

\* every operation that writes a donation row
Next ==
  \/ NextLifecycle
  \/ Dashboard
  \/ Update

Spec == Init /\ [][Next]_vars

\* ------------------------------------------------------ quota specification
\* A recipient who already holds MAX_ACTIVE_CLAIMS claimed donations, and the
\* donations that remain Available: the table after that many creates and
\* claims at time 0.
InitQuota ==
  /\ now = 0
  /\ db = [d \in DonationIds |->
             IF d <= MAX_ACTIVE_CLAIMS
             THEN [build_donation_instance("D1", MaxTime + 1, MaxTime + 1)
                     EXCEPT !.recipient = "R1", !.status = CLAIMED, !.claimed_at = 0]
             ELSE build_donation_instance("D1", MaxTime + 1, MaxTime + 1)]
  /\ req = [r \in ReqIds |-> Idle]
  /\ resp = NoResp
  /\ ratings = {}
  /\ call = NoCall

\* requests name the donations still open to claims and one of the held ones
QuotaTargets == {d \in DonationIds : d >= MAX_ACTIVE_CLAIMS}

ClaimQuota ==
  \/ \E r \in ReqIds, u \in Users, d \in QuotaTargets : ClaimBegin(r, u, d)
  \/ \E r \in ReqIds : ClaimCommit(r)

CompleteQuota == \E u \in Users, d \in QuotaTargets : complete_donation(u, d)

CancelQuota == \E u \in Users, d \in QuotaTargets : cancel_donation(u, d)

NextQuota ==
  \/ Tick
  \/ ClaimQuota
  \/ CompleteQuota
  \/ CancelQuota

SpecQuota == InitQuota /\ [][NextQuota]_vars

\* --------------------------------------------------- dispatcher failures
\* What can go wrong while the notifications and emails of a transition are
\* sent: the email send raises (caught in EmailService), the WebSocket push
\* raises (caught in send_realtime_notification), or the INSERT of the
\* Notification row raises a database error (caught in
\* send_realtime_notification, after Model.save has marked the surrounding
\* transaction for rollback).
DispatchFailures == {"none", "email", "websocket", "notification_insert"}

\* connection.needs_rollback after the dispatch: a database error inside
\* Notification.objects.create, raised within transaction.atomic()
needs_rollback(fail) == fail = "notification_insert"

\* Leaving transaction.atomic() without an exception: COMMIT, unless the
\* transaction is marked for rollback, then ROLLBACK.
atomic_exit(stored, c, fail) ==
  IF needs_rollback(fail) THEN stored ELSE atomic_commit(stored, c)

\* any query issued while the transaction is marked for rollback raises
\* TransactionManagementError, which handle_exception reports as unexpected
broken_transaction(op, context) ==
  Response(op, FALSE, context \o ": Unexpected error - An error occurred in the current transaction.")

\* claim_donation lines 118-143 with the dispatch outcome `fail`: Donation.claim
\* saves, then notify_donation_claimed and send_donation_claimed_email run and
\* swallow their exceptions, then the method returns success and the atomic
\* block is left.
claim_dispatch(r, fail) ==
  /\ req[r].op = "claim" /\ req[r].pc = "validated"
  /\ LET u == req[r].user
         d == req[r].d
         c == Donation_claim(req[r].snap, u, now) IN
     /\ c.raised => fail = "none"
     /\ db' = [db EXCEPT ![d] = atomic_exit(db[d], c, fail)]
     /\ resp' = IF c.raised
                THEN handle_exception("claim", "donation claim", c.exc)
                ELSE Response("claim", TRUE, "Donation claimed successfully")
  /\ req' = [req EXCEPT ![r] = Idle]
  /\ UNCHANGED <<now, ratings, call>>

\* complete_donation with the dispatch outcome `fail`: Donation.complete saves,
\* then notify_donation_completed and send_donation_completed_email run.  A
\* call that returns before the dispatch has no dispatch outcome.
complete_dispatch(u, d, fail) ==
  /\ IF ~Exists(d)
     THEN /\ fail = "none"
          /\ resp' = Response("complete", FALSE, "Donation not found")
          /\ UNCHANGED db
     ELSE /\ CanLock(d)
          /\ LET err == validate_complete(db[d], u)
                 c == Donation_complete(db[d], now) IN
             IF err # ""
             THEN /\ fail = "none"
                  /\ resp' = Response("complete", FALSE, err)
                  /\ UNCHANGED db
             ELSE /\ c.raised => fail = "none"
                  /\ db' = [db EXCEPT ![d] = atomic_exit(db[d], c, fail)]
                  /\ resp' = IF c.raised
                             THEN handle_exception("complete", "donation completion", c.exc)
                             ELSE Response("complete", TRUE, completed_message)
  /\ UNCHANGED <<now, req, ratings, call>>

\* cancel_donation with the dispatch outcome `fail`: for a Claimed donation
\* notify_donation_cancelled and send_cancellation_notification_email run
\* before Donation.cancel, whose save is then a query in a transaction already
\* marked for rollback.  A call that sends nothing has no dispatch outcome.
cancel_dispatch(u, d, fail) ==
  /\ IF ~Exists(d)
     THEN /\ fail = "none"
          /\ resp' = Response("cancel", FALSE, "Donation not found")
          /\ UNCHANGED db
     ELSE /\ CanLock(d)
          /\ LET err == validate_cancel(db[d], u)
                 c == Donation_cancel(db[d])
                 notified == db[d].status = CLAIMED /\ db[d].recipient # NoUser IN
             IF err # ""
             THEN /\ fail = "none"
                  /\ resp' = Response("cancel", FALSE, err)
                  /\ UNCHANGED db
             ELSE /\ ~notified => fail = "none"
                  /\ IF notified /\ needs_rollback(fail)
                     THEN /\ resp' = broken_transaction("cancel", "donation cancellation")
                          /\ UNCHANGED db
                     ELSE /\ db' = [db EXCEPT ![d] = atomic_exit(db[d], c, fail)]
                          /\ resp' = IF c.raised
                                     THEN handle_exception("cancel", "donation cancellation", c.exc)
                                     ELSE Response("cancel", TRUE,
                                                   "Donation cancelled successfully")
  /\ UNCHANGED <<now, req, ratings, call>>

ClaimDispatch ==
  \/ \E r \in ReqIds, u \in Users, d \in TargetIds : ClaimBegin(r, u, d)
  \/ \E r \in ReqIds, f \in DispatchFailures : claim_dispatch(r, f)

CompleteDispatch ==
  \E u \in Users, d \in TargetIds, f \in DispatchFailures : complete_dispatch(u, d, f)

CancelDispatch ==
  \E u \in Users, d \in TargetIds, f \in DispatchFailures : cancel_dispatch(u, d, f)

NextDispatch ==
  \/ Tick
  \/ Create
  \/ ClaimDispatch
  \/ CompleteDispatch
  \/ CancelDispatch

SpecDispatch == Init /\ [][NextDispatch]_vars

\* ------------------------------------------------------- REST API: DELETE
\* DonationViewSet.destroy: the permission classes, get_object(), the
\* ownership checks, then DonationService.cancel_donation under the row lock.
\* The donor of a row never changes, so the checks made on the unlocked read
\* give the same answer at the locked read.
destroy(u, d) ==
  /\ IF ~is_authenticated(u)
     THEN /\ resp' = Response("destroy", FALSE, "not authenticated")
          /\ UNCHANGED db
     ELSE IF ~has_permission(u)
     THEN /\ resp' = Response("destroy", FALSE, "permission denied")
          /\ UNCHANGED db
     ELSE IF ~Exists(d)
     THEN /\ resp' = Response("destroy", FALSE, "Donation not found")
          /\ UNCHANGED db
     ELSE IF ~has_object_permission(db[d], u)
     THEN /\ resp' = Response("destroy", FALSE, "permission denied")
          /\ UNCHANGED db
     ELSE /\ CanLock(d)
          /\ LET err == validate_cancel(db[d], u)
                 c == Donation_cancel(db[d]) IN
             IF err # ""
             THEN /\ resp' = Response("destroy", FALSE, err)
                  /\ UNCHANGED db
             ELSE /\ db' = [db EXCEPT ![d] = atomic_commit(db[d], c)]
                  /\ resp' = IF c.raised
                             THEN handle_exception("destroy", "donation cancellation", c.exc)
                             ELSE Response("destroy", TRUE, "Donation cancelled successfully")
  /\ UNCHANGED <<now, req, ratings, call>>

\* accounts with User.is_staff
Staff == {"D2"}

\* on_delete of the foreign keys of Donation when the user `target` is
\* deleted: donor CASCADE removes the row, recipient SET_NULL clears the
\* recipient
cascade_delete(row, target) ==
  IF row.donor = target THEN NoRow
  ELSE IF row.recipient = target THEN [row EXCEPT !.recipient = NoUser]
  ELSE row

\* UserViewSet.destroy: a staff account deletes another user's account with
\* user.delete().  The model keeps no table of users; the step shows what the
\* deletion does to the donations.
user_destroy(s, target) ==
  /\ IF s \notin Staff /\ target # s
     THEN /\ resp' = Response("user_destroy", FALSE, "User not found")
          /\ UNCHANGED db
     ELSE IF target = s
     THEN /\ resp' = Response("user_destroy", FALSE,
                              "You cannot delete your own account through this endpoint")
          /\ UNCHANGED db
     ELSE /\ \A d \in DonationIds :
               (Exists(d) /\ target \in {db[d].donor, db[d].recipient}) => ~Locked(d)
          /\ \A r \in ReqIds : req[r].user # target
          /\ db' = [d \in DonationIds |-> cascade_delete(db[d], target)]
          /\ resp' = Response("user_destroy", TRUE, "User deleted successfully")
  /\ UNCHANGED <<now, req, ratings, call>>

Destroy == \E u \in Callers, d \in TargetIds : destroy(u, d)

UpdateApi ==
  \/ \E r \in ReqIds, u \in Callers, d \in TargetIds : UpdateLoad(r, u, d)
  \/ \E r \in ReqIds : UpdateSave(r)

UserDestroy == \E s \in Users, target \in Users : user_destroy(s, target)

\* the REST API of donations, at one instant: none of its permission and
\* status checks reads the clock
NextApi ==
  \/ Create
  \/ Claim
  \/ Complete
  \/ UpdateApi
  \/ Destroy

SpecApi == Init /\ [][NextApi]_vars

\* the REST API together with the deletion of accounts by staff
NextAdmin ==
  \/ NextApi
  \/ UserDestroy

SpecAdmin == Init /\ [][NextAdmin]_vars

\* ------------------------------------------------- dietary compatibility
\* validators.get_allergen_tags
get_allergen_tags ==
  {"gluten", "dairy", "nuts", "peanuts", "shellfish", "soy", "eggs", "fish"}

\* the tags that request data carries: validate_dietary_tags accepts a tag in
\* any letter case
DietTags == {"vegan", "Vegan", "nuts", "Nuts", "dairy"}

\* str.lower() on those tags
lower(tag) ==
  IF tag = "Vegan" THEN "vegan"
  ELSE IF tag = "Nuts" THEN "nuts"
  ELSE tag

\* longest tag list of a profile or of a donation
MaxTags == 2

\* the JSON lists a dietary_restrictions or dietary_tags column can hold
TagLists == UNION {[1..n -> DietTags] : n \in 0..MaxTags}

\* UserProfile.is_dietary_compatible(donation), on the profile's
\* dietary_restrictions and the donation's dietary_tags
is_dietary_compatible(dietary_restrictions, dietary_tags) ==
  IF dietary_restrictions = <<>> THEN TRUE
  ELSE LET donation_tags == {lower(dietary_tags[i]) : i \in DOMAIN dietary_tags}
           user_restrictions ==
             {lower(dietary_restrictions[i]) : i \in DOMAIN dietary_restrictions}
       IN user_restrictions \subseteq donation_tags

\* a profile and a donation, each with any tag list
InitDietary ==
  /\ now = 0
  /\ db = EmptyTable
  /\ req = [r \in ReqIds |-> Idle]
  /\ resp = NoResp
  /\ ratings = {}
  /\ call \in [fn : {"is_dietary_compatible"},
               dietary_restrictions : TagLists, dietary_tags : TagLists,
               returned : {FALSE}, result : {FALSE}]

\* profile.is_dietary_compatible(donation) is called and returns
DietaryCompatible ==
  /\ call.fn = "is_dietary_compatible" /\ ~call.returned
  /\ call' = [call EXCEPT
                !.returned = TRUE,
                !.result = is_dietary_compatible(call.dietary_restrictions,
                                                 call.dietary_tags)]
  /\ UNCHANGED <<now, db, req, resp, ratings>>

NextDietary == DietaryCompatible

SpecDietary == InitDietary /\ [][NextDietary]_vars

\* ------------------------------------------------------- search_donations
\* Donation.food_category: set from the request data when the donation is
\* built and never written again, so the model fixes it by the donation's id
\* instead of carrying the column
food_category_of(d) == IF d % 2 = 1 THEN "fruits" ELSE "dairy"

\* query_params of a search: no filter, or a food_category filter.  The other
\* filters (q, max_calories, min_nutrition_score, dietary_tags) narrow the
\* queryset by further columns in the same way.
QueryParams == {"", "fruits", "dairy"}

\* DonationService._apply_search_filters
apply_search_filters(queryset, query_params) ==
  IF query_params # ""
  THEN {d \in queryset : food_category_of(d) = query_params}
  ELSE queryset

\* the search that returns the filtered queryset as it is
search_donations_queryset_only(query_params, t) ==
  apply_search_filters({d \in DonationIds : db[d].status = AVAILABLE}, query_params)

\* DonationService.search_donations at time t: the queryset of Available
\* donations, the filters, then the donations that are not is_expired()
search_donations(query_params, t) ==
  LET queryset == {d \in DonationIds : db[d].status = AVAILABLE}
      filtered == apply_search_filters(queryset, query_params)
  IN {d \in filtered : ~is_expired(db[d], t)}

\* one search request: a read of the table that writes nothing
search(query_params) ==
  /\ call' = [fn |-> "search_donations", returned |-> TRUE,
              result |-> search_donations(query_params, now)]
  /\ resp' = NoResp
  /\ UNCHANGED <<now, db, req, ratings>>

Search == \E q \in QueryParams : search(q)

\* the lifecycle with searches
NextSearch ==
  \/ NextLifecycle
  \/ Search

SpecSearch == Init /\ [][NextSearch]_vars

\* ------------------------------------------------ the sweep keeps running
\* The lifecycle with its scheduling: time passes, the periodic task
\* mark_expired_donations runs again and again, and a request that holds a
\* row lock goes on to its commit.
SpecSweep ==
  /\ Init
  /\ [][NextLifecycle]_vars
  /\ WF_vars(Tick)
  /\ WF_vars(mark_expired_donations)
  /\ \A r \in ReqIds : WF_vars(ClaimCommit(r))

\* ------------------------------------------------- _calculate_nutrition_score
\* the category_bonus dictionary
CategoryBonus ==
  [fruits |-> 25, vegetables |-> 25, protein |-> 20, grains |-> 15, dairy |-> 10,
   pantry |-> 5, prepared |-> 10, beverages |-> 5, other |-> 5]

\* category_bonus.get(donation.food_category, 0)
category_bonus(food_category) ==
  IF food_category \in DOMAIN CategoryBonus THEN CategoryBonus[food_category] ELSE 0

\* the freshness bonus with the tiers compared by >= instead of >
freshness_bonus_ge(seconds_until_expiry) ==
  IF seconds_until_expiry >= 48 * 3600 THEN 15
  ELSE IF seconds_until_expiry >= 24 * 3600 THEN 10
  ELSE IF seconds_until_expiry >= 12 * 3600 THEN 5
  ELSE 0

\* lines 364-374: hours_until_expiry = total_seconds() / 3600 compared with
\* 48, 24 and 12
freshness_bonus(seconds_until_expiry) ==
  IF seconds_until_expiry > 48 * 3600 THEN 15
  ELSE IF seconds_until_expiry > 24 * 3600 THEN 10
  ELSE IF seconds_until_expiry > 12 * 3600 THEN 5
  ELSE 0

\* min(a, b) and max(a, b) of Python
min(a, b) == IF a <= b THEN a ELSE b

max(a, b) == IF a >= b THEN a ELSE b

\* the score as the plain sum: no cap on the tag bonus and no clamp
calculate_nutrition_score_unclamped(food_category, seconds_until_expiry, estimated_calories, dietary_tags) ==
  LET base == 50 + category_bonus(food_category)
      fresh == base + freshness_bonus(seconds_until_expiry)
      cal == IF estimated_calories # NULL /\ estimated_calories # 0
                /\ estimated_calories > 500
             THEN fresh - 5 ELSE fresh
  IN IF dietary_tags # <<>> THEN cal + Len(dietary_tags) * 2 ELSE cal

\* DonationService._calculate_nutrition_score(donation), on the donation's
\* food_category, the seconds from now to its expiry_datetime, its
\* estimated_calories (NULL for None) and its dietary_tags list
calculate_nutrition_score(food_category, seconds_until_expiry, estimated_calories, dietary_tags) ==
  LET base == 50 + category_bonus(food_category)
      fresh == base + freshness_bonus(seconds_until_expiry)
      cal == IF estimated_calories # NULL /\ estimated_calories # 0
                /\ estimated_calories > 500
             THEN fresh - 5 ELSE fresh
      score == IF dietary_tags # <<>>
               THEN cal + min(Len(dietary_tags) * 2, 10) ELSE cal
  IN min(100, max(0, score))

\* food_category of request data: the nine choices and a value outside them
FoodCategories == DOMAIN CategoryBonus \cup {"unlisted"}

\* seconds from now to expiry_datetime: past, none, and both sides of every
\* tier limit
SecondsLeft ==
  {0 - 3600, 0, 12 * 3600, 12 * 3600 + 1, 24 * 3600, 24 * 3600 + 1,
   48 * 3600, 48 * 3600 + 1}

\* estimated_calories: None, zero, and both sides of the penalty limit
CalorieInputs == {NULL, 0, 500, 501}

\* longest dietary_tags list of a scored donation
MaxScoreTags == 6

ScoreTagLists == UNION {[1..n -> {"vegan", "nuts"}] : n \in 0..MaxScoreTags}

\* a donation built from any request data, about to be scored
InitScore ==
  /\ now = 0
  /\ db = EmptyTable
  /\ req = [r \in ReqIds |-> Idle]
  /\ resp = NoResp
  /\ ratings = {}
  /\ call \in [fn : {"calculate_nutrition_score"},
               food_category : FoodCategories,
               seconds_until_expiry : SecondsLeft,
               estimated_calories : CalorieInputs,
               dietary_tags : ScoreTagLists,
               returned : {FALSE}, result : {0}]

\* create_donation line 40: donation.nutrition_score = the computed score
NutritionScore ==
  /\ call.fn = "calculate_nutrition_score" /\ ~call.returned
  /\ call' = [call EXCEPT
                !.returned = TRUE,
                !.result = calculate_nutrition_score(
                             call.food_category, call.seconds_until_expiry,
                             call.estimated_calories, call.dietary_tags)]
  /\ UNCHANGED <<now, db, req, resp, ratings>>

NextScore == NutritionScore

SpecScore == InitScore /\ [][NextScore]_vars

\* --------------------------------------------------- REST API: POST ratings
\* RatingSerializer.validate for the request user u and the donation row named
\* by the request data: error message, or "" when the data is valid
validate_rating(row, d, u) ==
  IF row.status # COMPLETED THEN "Can only rate completed donations"
  ELSE IF u \notin {row.donor, row.recipient}
       THEN "You can only rate donations you were involved in"
  ELSE IF \E x \in ratings : x[1] = d /\ x[2] = u
       THEN "You have already rated this donation"
  ELSE ""

\* RatingViewSet.create: IsAuthenticated, the serializer's validation (an
\* unknown donation id is refused by the primary-key field), then
\* perform_create.  perform_create calls DonationService.create_rating, a
\* method DonationService does not have, with validated_data['rated_user'], a
\* key the read-only field rated_user never puts there: every request that
\* passes validation ends in an exception (500) before any Rating is saved.
rating_create(u, d) ==
  /\ resp' =
       IF ~is_authenticated(u) THEN Response("rating", FALSE, "not authenticated")
       ELSE IF ~Exists(d) THEN Response("rating", FALSE, "Invalid pk - object does not exist.")
       ELSE IF validate_rating(db[d], d, u) # ""
       THEN Response("rating", FALSE, validate_rating(db[d], d, u))
       ELSE Response("rating", FALSE,
                     "AttributeError: type object 'DonationService' has no attribute 'create_rating'")
  /\ UNCHANGED <<now, db, req, ratings, call>>

RatingCreate == \E u \in Callers, d \in TargetIds : rating_create(u, d)

\* the REST API of donations and ratings, at one instant
NextRating ==
  \/ Create
  \/ Claim
  \/ Complete
  \/ Cancel
  \/ RatingCreate

SpecRating == Init /\ [][NextRating]_vars

\* ------------------------------------------- quota under concurrent claims
\* A recipient who holds one claimed donation less than MAX_ACTIVE_CLAIMS, and
\* the donations that remain Available: the table after that many creates
\* and claims at time 0.
InitQuotaRace ==
  /\ now = 0
  /\ db = [d \in DonationIds |->
             IF d < MAX_ACTIVE_CLAIMS
             THEN [build_donation_instance("D1", MaxTime + 1, MaxTime + 1)
                     EXCEPT !.recipient = "R1", !.status = CLAIMED, !.claimed_at = 0]
             ELSE build_donation_instance("D1", MaxTime + 1, MaxTime + 1)]
  /\ req = [r \in ReqIds |-> Idle]
  /\ resp = NoResp
  /\ ratings = {}
  /\ call = NoCall

SpecQuotaRace == InitQuotaRace /\ [][NextQuota]_vars

\* ------------------------------- complete and cancel as concurrent requests
\* complete_donation lines 186-195: the locking read (it waits while another
\* transaction holds the row) and the two checks.  An error returns at once;
\* otherwise the request goes on holding the row lock.
CompleteBegin(r, u, d) ==
  /\ FreeSlot(r)
  /\ IF ~Exists(d)
     THEN /\ resp' = Response("complete", FALSE, "Donation not found")
          /\ UNCHANGED req
     ELSE /\ CanLock(d)
          /\ LET err == validate_complete(db[d], u) IN
             IF err # ""
             THEN /\ resp' = Response("complete", FALSE, err)
                  /\ UNCHANGED req
             ELSE /\ req' = [req EXCEPT ![r] =
                               [Idle EXCEPT !.op = "complete", !.user = u, !.d = d,
                                            !.pc = "validated", !.snap = db[d]]]
                  /\ resp' = NoResp
  /\ UNCHANGED <<now, db, ratings, call>>

\* complete_donation lines 197-219: Donation.complete on the loaded instance,
\* the notifications, commit
CompleteCommit(r) ==
  /\ req[r].op = "complete" /\ req[r].pc = "validated"
  /\ LET d == req[r].d
         c == Donation_complete(req[r].snap, now) IN
     /\ db' = [db EXCEPT ![d] = atomic_commit(db[d], c)]
     /\ resp' = IF c.raised
                THEN handle_exception("complete", "donation completion", c.exc)
                ELSE Response("complete", TRUE, completed_message)
  /\ req' = [req EXCEPT ![r] = Idle]
  /\ UNCHANGED <<now, ratings, call>>

\* cancel_donation lines 391-400: the locking read and the two checks
CancelBegin(r, u, d) ==
  /\ FreeSlot(r)
  /\ IF ~Exists(d)
     THEN /\ resp' = Response("cancel", FALSE, "Donation not found")
          /\ UNCHANGED req
     ELSE /\ CanLock(d)
          /\ LET err == validate_cancel(db[d], u) IN
             IF err # ""
             THEN /\ resp' = Response("cancel", FALSE, err)
                  /\ UNCHANGED req
             ELSE /\ req' = [req EXCEPT ![r] =
                               [Idle EXCEPT !.op = "cancel", !.user = u, !.d = d,
                                            !.pc = "validated", !.snap = db[d]]]
                  /\ resp' = NoResp
  /\ UNCHANGED <<now, db, ratings, call>>

\* cancel_donation lines 402-419: the notification of the recipient,
\* Donation.cancel on the loaded instance, commit
CancelCommit(r) ==
  /\ req[r].op = "cancel" /\ req[r].pc = "validated"
  /\ LET d == req[r].d
         c == Donation_cancel(req[r].snap) IN
     /\ db' = [db EXCEPT ![d] = atomic_commit(db[d], c)]
     /\ resp' = IF c.raised
                THEN handle_exception("cancel", "donation cancellation", c.exc)
                ELSE Response("cancel", TRUE, "Donation cancelled successfully")
  /\ req' = [req EXCEPT ![r] = Idle]
  /\ UNCHANGED <<now, ratings, call>>

CompleteRequest ==
  \/ \E r \in ReqIds, u \in Users, d \in TargetIds : CompleteBegin(r, u, d)
  \/ \E r \in ReqIds : CompleteCommit(r)

CancelRequest ==
  \/ \E r \in ReqIds, u \in Users, d \in TargetIds : CancelBegin(r, u, d)
  \/ \E r \in ReqIds : CancelCommit(r)

\* create, claim, complete and cancel requests running concurrently
NextRace ==
  \/ Create
  \/ Claim
  \/ CompleteRequest
  \/ CancelRequest

SpecRace == Init /\ [][NextRace]_vars

TypeOK ==
  /\ now \in 0..MaxTime
  /\ \A d \in DonationIds : db[d].status \in STATUS_CHOICES \cup {ABSENT}

\* ---------------------------------------------------------------- properties
Stored == {d \in DonationIds : Exists(d)}

EligibleRecipient(u) ==
  /\ UserProfile[u].user_type = RECIPIENT
  /\ UserProfile[u].email_verified
  /\ active_claims(u) < MAX_ACTIVE_CLAIMS

\* C1: single-winner claim arbitration.  A claim call returns success only on
\* a donation that is Available when it commits, and then the donation is
\* Claimed by the caller with claimed_at = now; a claim call that reaches its
\* commit on an Available, unexpired donation does succeed; every other claim
\* call returns failure and writes nothing; and once a donation has a
\* recipient, no later step makes it Available again or changes its recipient
\* or claimed_at.  So of any number of claim calls on one Available donation
\* exactly the first to commit wins and all others fail.
C1_SingleWinner ==
  [][ /\ \A r \in ReqIds :
           ClaimCommit(r) =>
             LET d == req[r].d
                 u == req[r].user IN
             /\ resp'.op = "claim"
             /\ resp'.success =>
                  /\ db[d].status = AVAILABLE
                  /\ db'[d].status = CLAIMED
                  /\ db'[d].recipient = u
                  /\ db'[d].claimed_at = now
             /\ (db[d].status = AVAILABLE /\ ~is_expired(db[d], now)) => resp'.success
             /\ ~resp'.success => db' = db
      /\ \A r \in ReqIds, u \in Users, d \in Stored :
           ClaimBegin(r, u, d) =>
             /\ db' = db
             /\ db[d].status # AVAILABLE => (resp'.op = "claim" /\ ~resp'.success)
             /\ (db[d].status # AVAILABLE /\ EligibleRecipient(u)) =>
                  resp'.msg = "This donation is " \o db[d].status
      /\ \A d \in Stored :
           db[d].recipient # NoUser =>
             /\ db'[d].status # AVAILABLE
             /\ db'[d].recipient = db[d].recipient
             /\ db'[d].claimed_at = db[d].claimed_at
    ]_vars

\* a second recipient's claim has just failed on a donation another recipient holds
C1_Witness ==
  /\ resp = Response("claim", FALSE, "This donation is claimed")
  /\ \E d \in Stored : db[d].status = CLAIMED /\ db[d].recipient \in {"R1", "R2"}

\* C2: every stored donation has one of the five statuses, and across any
\* sequence of create, claim, complete, cancel and expiry-sweep steps a status
\* changes only along Available -> Claimed, Claimed -> Completed,
\* Available -> Cancelled, Claimed -> Cancelled and Available -> Expired.
LifecycleEdges ==
  {<<AVAILABLE, CLAIMED>>, <<CLAIMED, COMPLETED>>, <<AVAILABLE, CANCELLED>>,
   <<CLAIMED, CANCELLED>>, <<AVAILABLE, EXPIRED>>}

C2_StatusEdges ==
  [][ \A d \in DonationIds :
        /\ Exists(d) => db[d].status \in STATUS_CHOICES
        /\ db'[d].status \in STATUS_CHOICES \cup {ABSENT}
        /\ ~Exists(d) => db'[d].status \in {ABSENT, AVAILABLE}
        /\ (Exists(d) /\ db'[d].status # db[d].status) =>
             <<db[d].status, db'[d].status>> \in LifecycleEdges
    ]_vars

\* the sweep has turned an unclaimed donation past its expiry to Expired
C2_Witness ==
  \E d \in Stored : db[d].status = EXPIRED /\ db[d].recipient = NoUser /\ now = MaxTime

\* C3: a donation that is Completed, Cancelled or Expired keeps its status
\* under every later claim, complete, cancel, sweep, owner update and donor
\* dashboard refresh.
C3_TerminalStays ==
  [][ \A d \in Stored :
        db[d].status \in {COMPLETED, CANCELLED, EXPIRED} =>
          db'[d].status = db[d].status
    ]_vars

\* C4: a claim by an eligible recipient on a donation that is Available but
\* past its expiry returns failure and leaves the stored status Expired.
C4_ExpiredOnClaim ==
  [][ \A r \in ReqIds, u \in Users, d \in Stored :
        ( /\ ClaimBegin(r, u, d)
          /\ EligibleRecipient(u)
          /\ db[d].status = AVAILABLE
          /\ is_expired(db[d], now) ) =>
          /\ resp'.op = "claim" /\ ~resp'.success
          /\ db'[d].status = EXPIRED
    ]_vars

\* C5: a complete call succeeds only on a Claimed donation, which it makes
\* Completed with completed_at = now; a caller who is the donor or the
\* recipient of a Claimed donation does succeed; on a donation in any other
\* status the call returns failure and leaves status and completed_at as
\* they were.
C5_CompleteOnlyClaimed ==
  [][ \A u \in Users, d \in Stored :
        complete_donation(u, d) =>
          /\ resp'.op = "complete"
          /\ resp'.success =>
               /\ db[d].status = CLAIMED
               /\ db'[d].status = COMPLETED
               /\ db'[d].completed_at = now
          /\ (db[d].status = CLAIMED /\ u \in {db[d].donor, db[d].recipient}) =>
               resp'.success
          /\ db[d].status # CLAIMED =>
               /\ ~resp'.success
               /\ db'[d].status = db[d].status
               /\ db'[d].completed_at = db[d].completed_at
    ]_vars

\* the donor's complete call has just been refused on a donation not Claimed
C5_Witness ==
  /\ resp = Response("complete", FALSE, "Only claimed donations can be completed")
  /\ \E d \in Stored : db[d].status \in {AVAILABLE, COMPLETED} /\ db[d].donor = "D1"

\* C6 as stated: the donor's cancel call succeeds only on an Available or
\* Claimed donation, which it makes Cancelled; on a Completed or Expired
\* donation it returns failure and leaves the status as it was.
C6_CancelOnlyOpen ==
  [][ \A u \in Users, d \in Stored :
        (cancel_donation(u, d) /\ u = db[d].donor) =>
          /\ resp'.op = "cancel"
          /\ resp'.success =>
               /\ db[d].status \in {AVAILABLE, CLAIMED}
               /\ db'[d].status = CANCELLED
          /\ db[d].status \in {COMPLETED, EXPIRED} =>
               /\ ~resp'.success
               /\ db'[d].status = db[d].status
    ]_vars

\* C6 amended: the donor's cancel call succeeds exactly on an Available,
\* Claimed or already Cancelled donation, and the status is then Cancelled;
\* on a Completed or Expired donation it returns failure and leaves the
\* status as it was.
C6_CancelAmended ==
  [][ \A u \in Users, d \in Stored :
        (cancel_donation(u, d) /\ u = db[d].donor) =>
          /\ resp'.op = "cancel"
          /\ resp'.success <=> db[d].status \in {AVAILABLE, CLAIMED, CANCELLED}
          /\ resp'.success => db'[d].status = CANCELLED
          /\ ~resp'.success => db'[d] = db[d]
    ]_vars

\* the donor's cancel call has just succeeded
C6_Witness ==
  /\ resp = Response("cancel", TRUE, "Donation cancelled successfully")
  /\ \E d \in Stored : db[d].status = CANCELLED /\ db[d].donor \in {"D1", "D2"}

\* C7: a claim by a recipient who holds MAX_ACTIVE_CLAIMS Claimed donations
\* returns failure, with the quota message when nothing else is wrong with
\* the call, and the target stays Available with no recipient; a verified
\* recipient holding fewer is let through to the claim.
C7_Quota ==
  [][ \A r \in ReqIds, u \in Users, d \in Stored :
        (ClaimBegin(r, u, d) /\ db[d].status = AVAILABLE) =>
          /\ active_claims(u) >= MAX_ACTIVE_CLAIMS =>
               /\ resp'.op = "claim" /\ ~resp'.success
               /\ db'[d].status = AVAILABLE /\ db'[d].recipient = NoUser
          /\ ( /\ active_claims(u) >= MAX_ACTIVE_CLAIMS
               /\ UserProfile[u].user_type = RECIPIENT /\ UserProfile[u].email_verified
               /\ ~is_expired(db[d], now) /\ ~is_pickup_overdue(db[d], now) ) =>
               resp'.msg = quota_message
          /\ ( /\ active_claims(u) < MAX_ACTIVE_CLAIMS
               /\ UserProfile[u].user_type = RECIPIENT /\ UserProfile[u].email_verified
               /\ ~is_expired(db[d], now) /\ ~is_pickup_overdue(db[d], now) ) =>
               (resp' = NoResp /\ req'[r].op = "claim")
    ]_vars

\* a claim has just been refused for the quota while the recipient holds
\* MAX_ACTIVE_CLAIMS claims and a donation is still Available
C7_Witness ==
  /\ resp = Response("claim", FALSE, quota_message)
  /\ active_claims("R1") = MAX_ACTIVE_CLAIMS
  /\ \E d \in Stored : db[d].status = AVAILABLE /\ db[d].recipient = NoUser

\* C8: recipient is null exactly when the donation is Available, Expired, or
\* Cancelled without ever having been claimed (claimed_at, which nothing
\* clears, records that a claim happened).
C8_RecipientIff ==
  \A d \in Stored :
    (db[d].recipient = NoUser) <=>
      \/ db[d].status \in {AVAILABLE, EXPIRED}
      \/ (db[d].status = CANCELLED /\ db[d].claimed_at = NULL)

C10_CompletedAtIff ==
  \A d \in Stored :
    (db[d].completed_at # NULL) <=> (db[d].status = COMPLETED)

\* C11: a complete call succeeds only for the donation's donor or its current
\* recipient; a call by any other user returns failure and leaves the
\* donation as it was.
C11_CompleteAuthorized ==
  [][ \A u \in Users, d \in Stored :
        complete_donation(u, d) =>
          /\ resp'.success => u \in {db[d].donor, db[d].recipient}
          /\ u \notin {db[d].donor, db[d].recipient} =>
               /\ resp' = Response("complete", FALSE,
                                   "You are not authorized to complete this donation")
               /\ db'[d] = db[d]
    ]_vars

\* a complete call on a Claimed donation has just been refused as unauthorized
C11_Witness ==
  /\ resp = Response("complete", FALSE, "You are not authorized to complete this donation")
  /\ \E d \in Stored : db[d].status = CLAIMED /\ db[d].completed_at = NULL

\* C12: a cancel call succeeds only for the donation's donor; a call by any
\* other user, the recipient who claimed it included, returns failure and
\* leaves the donation as it was.
C12_CancelDonorOnly ==
  [][ \A u \in Users, d \in Stored :
        cancel_donation(u, d) =>
          /\ resp'.success => u = db[d].donor
          /\ u # db[d].donor =>
               /\ resp' = Response("cancel", FALSE, "Only the donor can cancel this donation")
               /\ db'[d] = db[d]
    ]_vars

\* a cancel call on a Claimed donation has just been refused: not the donor
C12_Witness ==
  /\ resp = Response("cancel", FALSE, "Only the donor can cancel this donation")
  /\ \E d \in Stored : db[d].status = CLAIMED /\ db[d].recipient # NoUser

\* C13: a claim call on an Available donation by a caller who is not a
\* Recipient, or not verified, or who calls after the pickup window's end,
\* returns failure and leaves the donation Available with no recipient; a
\* claim that succeeds was made by a verified Recipient.
C13_ClaimEligibility ==
  [][ /\ \A r \in ReqIds, u \in Users, d \in Stored :
           ( /\ ClaimBegin(r, u, d)
             /\ db[d].status = AVAILABLE
             /\ \/ UserProfile[u].user_type # RECIPIENT
                \/ ~UserProfile[u].email_verified
                \/ now > db[d].pickup_end ) =>
             /\ resp'.op = "claim" /\ ~resp'.success /\ resp'.msg # ""
             /\ req' = req
             /\ db'[d].status = AVAILABLE /\ db'[d].recipient = NoUser
      /\ \A r \in ReqIds :
           (ClaimCommit(r) /\ resp'.success) =>
             /\ UserProfile[req[r].user].user_type = RECIPIENT
             /\ UserProfile[req[r].user].email_verified
    ]_vars

\* a claim has just been refused because the pickup window has passed, on a
\* donation that is Available and not yet expired
C13_Witness ==
  /\ resp = Response("claim", FALSE, "The pickup window has passed")
  /\ \E d \in Stored :
       /\ db[d].status = AVAILABLE /\ db[d].recipient = NoUser
       /\ now > db[d].pickup_end /\ now < db[d].expiry_datetime

\* C14: a create call whose expiry is not strictly in the future, whose
\* pickup_end is not after pickup_start, or whose pickup_end is later than
\* the expiry, returns failure and stores no donation.
C14_CreateValidatesTimes ==
  [][ \A u \in Users, t \in TimeInputs :
        ( /\ create_donation(u, t[1], t[2])
          /\ \/ t[1] <= now
             \/ t[2] <= PickupStart
             \/ t[2] > t[1] ) =>
          /\ resp'.op = "create" /\ ~resp'.success
          /\ db' = db
    ]_vars

\* C15: a create call succeeds only for a caller whose profile is a verified
\* Donor; for any other caller it returns failure and stores nothing.  The
\* donation a successful call stores belongs to the caller and starts
\* Available with no recipient, no claimed_at and no completed_at.
C15_CreateDonorOnly ==
  [][ \A u \in Users, t \in TimeInputs :
        create_donation(u, t[1], t[2]) =>
          /\ resp'.op = "create"
          /\ resp'.success <=>
               (UserProfile[u].user_type = DONOR /\ UserProfile[u].email_verified)
          /\ ~resp'.success => (db' = db /\ resp'.msg # "")
          /\ resp'.success =>
               /\ \A d \in Stored : db'[d] = db[d]
               /\ db'[NextId].donor = u
               /\ db'[NextId].status = AVAILABLE
               /\ db'[NextId].recipient = NoUser
               /\ db'[NextId].claimed_at = NULL
               /\ db'[NextId].completed_at = NULL
    ]_vars

\* a create call has just succeeded and its donation is stored
C15_Witness ==
  /\ resp = Response("create", TRUE, "Donation created successfully")
  /\ \E d \in Stored :
       /\ db[d].donor = "D1" /\ db[d].status = AVAILABLE /\ db[d].recipient = NoUser
       /\ db[d].claimed_at = NULL /\ db[d].completed_at = NULL

\* C16: create, claim, complete and cancel answer every precondition failure
\* (donation not found, wrong role, not verified, wrong status, expired,
\* pickup overdue, quota, a ValidationError raised by the model method) with
\* a ServiceResponse of their own that has success = FALSE and a non-empty
\* message, and write nothing; no such failure reaches the caller as an
\* exception.
ServiceOps == {"create", "claim", "complete", "cancel"}

C17_DispatchNeverBlocks ==
  [][ /\ \A r \in ReqIds, f \in DispatchFailures \ {"none"} :
           claim_dispatch(r, f) =>
             /\ resp'.success
             /\ db'[req[r].d].status = CLAIMED
             /\ db'[req[r].d].recipient = req[r].user
      /\ \A u \in Users, d \in Stored, f \in DispatchFailures \ {"none"} :
           complete_dispatch(u, d, f) =>
             (resp'.success /\ db'[d].status = COMPLETED)
      /\ \A u \in Users, d \in Stored, f \in DispatchFailures \ {"none"} :
           cancel_dispatch(u, d, f) =>
             (resp'.success /\ db'[d].status = CANCELLED)
    ]_vars

\* C18: no step removes a stored donation, and an owner's DELETE on a
\* donation that is Available or Claimed leaves it stored with status
\* Cancelled.
C18_NeverRemoved ==
  [][ /\ \A d \in Stored : db'[d].status # ABSENT
      /\ \A u \in Users, d \in Stored :
           (destroy(u, d) /\ u = db[d].donor /\ db[d].status \in {AVAILABLE, CLAIMED}) =>
             /\ resp'.success
             /\ db'[d] = [db[d] EXCEPT !.status = CANCELLED]
    ]_vars

\* C19: a PUT, PATCH or DELETE on a donation by a caller who is not its
\* donor (another donor, a recipient, or a request without credentials) is
\* denied and leaves every field of the donation as it was; only the donor's
\* update is ever saved.
C19_NonOwnerDenied ==
  [][ /\ \A r \in ReqIds, u \in Callers, d \in Stored :
           (UpdateLoad(r, u, d) /\ u # db[d].donor) =>
             /\ resp'.op = "update" /\ ~resp'.success
             /\ resp'.msg \in {"permission denied", "not authenticated"}
             /\ req' = req /\ db' = db
      /\ \A u \in Callers, d \in Stored :
           (destroy(u, d) /\ u # db[d].donor) =>
             /\ resp'.op = "destroy" /\ ~resp'.success
             /\ resp'.msg \in {"permission denied", "not authenticated"}
             /\ db' = db
      /\ \A r \in ReqIds :
           UpdateSave(r) => req[r].user = db[req[r].d].donor
    ]_vars

\* a DELETE by someone who is not the donor has just been denied on a
\* donation that is Claimed
C19_Witness ==
  /\ resp = Response("destroy", FALSE, "permission denied")
  /\ \E d \in Stored : db[d].status = CLAIMED /\ db[d].donor = "D1"

\* C20: the donor's PUT or PATCH on a donation that is Completed is rejected
\* and changes nothing.
C20_CompletedNotEditable ==
  [][ \A r \in ReqIds, u \in Callers, d \in Stored :
        (UpdateLoad(r, u, d) /\ u = db[d].donor /\ db[d].status = COMPLETED) =>
          /\ resp' = Response("update", FALSE, "Cannot update completed donations")
          /\ req' = req /\ db' = db
    ]_vars

\* the donor's update of a Completed donation has just been rejected
C20_Witness ==
  /\ resp = Response("update", FALSE, "Cannot update completed donations")
  /\ \E d \in Stored : db[d].status = COMPLETED /\ db[d].completed_at # NULL

\* C21: is_dietary_compatible returns false whenever the donation's tags share
\* at least one tag with the allergen tags among the profile's restrictions,
\* whether or not the lifestyle tags match.
C21_AllergenWins ==
  (call.fn = "is_dietary_compatible" /\ call.returned) =>
    LET donation_tags ==
          {lower(call.dietary_tags[i]) : i \in DOMAIN call.dietary_tags}
        profile_allergens ==
          {lower(call.dietary_restrictions[i]) :
             i \in DOMAIN call.dietary_restrictions} \cap get_allergen_tags
    IN donation_tags \cap profile_allergens # {} => call.result = FALSE

\* C26: whatever filters are supplied, the donations search_donations returns
\* are Available and their expiry_datetime is still in the future at the time
\* of the call; the search writes nothing.
C26_SearchOnlyAvailable ==
  [][\A q \in QueryParams :
       search(q) =>
         /\ db' = db
         /\ \A d \in call'.result :
              db[d].status = AVAILABLE /\ now < db[d].expiry_datetime
    ]_vars

\* a search has returned nothing while an Available donation past its expiry
\* is stored
C26_Witness ==
  /\ call.fn = "search_donations" /\ call.result = {}
  /\ \E d \in Stored : db[d].status = AVAILABLE /\ is_expired(db[d], now)

C23_ScoreInRange ==
  (call.fn = "calculate_nutrition_score" /\ call.returned) => call.result \in 0..100

\* the highest score has been computed: fruits, more than two days left, five
\* tags or more, no calorie penalty
C23_Witness ==
  /\ call.fn = "calculate_nutrition_score" /\ call.returned
  /\ call.food_category = "fruits" /\ Len(call.dietary_tags) > 5
  /\ call.result = 100

\* the freshness tier of a donation: how many of the limits 12 h, 24 h and
\* 48 h its time until expiry exceeds
FreshnessTier(seconds) == Cardinality({h \in {12, 24, 48} : seconds > h * 3600})

\* clamp(x, 0, 100)
Clamp(x) == IF x < 0 THEN 0 ELSE IF x > 100 THEN 100 ELSE x

C27_QuotaNeverExceeded ==
  \A u \in Users : active_claims(u) <= MAX_ACTIVE_CLAIMS

\* C28: however a donor's update (load, validate, save) interleaves with a
\* concurrent successful claim_donation on the same donation, the save never
\* undoes the claim; more generally the save of an owner update never changes
\* status, donor, recipient, claimed_at or completed_at.
C28_UpdateKeepsClaim ==
  [][\A r \in ReqIds :
       UpdateSave(r) =>
         LET d == req[r].d IN
         /\ db'[d].status = db[d].status
         /\ db'[d].donor = db[d].donor
         /\ db'[d].recipient = db[d].recipient
         /\ db'[d].claimed_at = db[d].claimed_at
         /\ db'[d].completed_at = db[d].completed_at
    ]_vars

\* C29: when complete_donation and cancel_donation run concurrently on one
\* Claimed donation, exactly one returns success and the final status is the
\* one the winner wrote; the loser returns failure and writes nothing.  Stated
\* per step: a completion succeeds exactly when the stored status is Claimed
\* at its commit and then stores Completed; a cancellation succeeds only when
\* the stored status at its commit is not Completed and then stores
\* Cancelled; a call that fails writes nothing; a completion that starts on a
\* Cancelled donation and a cancellation that starts on a Completed one fail;
\* and a Completed or Cancelled donation keeps its status.
C29_CompleteCancelRace ==
  [][ /\ \A r \in ReqIds :
           CompleteCommit(r) =>
             LET d == req[r].d IN
             /\ resp'.success <=> db[d].status = CLAIMED
             /\ resp'.success => db'[d].status = COMPLETED
             /\ ~resp'.success => db' = db
      /\ \A r \in ReqIds :
           CancelCommit(r) =>
             LET d == req[r].d IN
             /\ resp'.success => db[d].status \in {AVAILABLE, CLAIMED, CANCELLED}
             /\ resp'.success => db'[d].status = CANCELLED
             /\ ~resp'.success => db' = db
      /\ \A r \in ReqIds, u \in Users, d \in Stored :
           CompleteBegin(r, u, d) =>
             /\ db' = db
             /\ db[d].status # CLAIMED => (resp'.op = "complete" /\ ~resp'.success)
      /\ \A r \in ReqIds, u \in Users, d \in Stored :
           CancelBegin(r, u, d) =>
             /\ db' = db
             /\ db[d].status = COMPLETED => (resp'.op = "cancel" /\ ~resp'.success)
      /\ \A d \in Stored :
           db[d].status \in {COMPLETED, CANCELLED} => db'[d].status = db[d].status
    ]_vars

\* the cancellation that lost against a completion of the same donation has
\* just failed
C29_Witness ==
  /\ resp = Response("cancel", FALSE, "Cannot cancel completed donations")
  /\ \E d \in Stored : db[d].status = COMPLETED /\ db[d].completed_at # NULL

\* C30: the expiry sweep mark_expired_donations changes only donations that
\* are Available with expiry_datetime in the past, and changes only their
\* status; interleaved with concurrent claim_donation requests a sweep step
\* never turns a Claimed donation into Expired, and every donation it leaves
\* Expired has no recipient and no claimed_at.
C30_SweepOnlyAvailable ==
  [][ mark_expired_donations =>
        \A d \in DonationIds :
          /\ db'[d] # db[d] =>
               /\ db[d].status = AVAILABLE
               /\ db[d].expiry_datetime < now
               /\ db'[d] = [db[d] EXCEPT !.status = db'[d].status]
          /\ db[d].status = CLAIMED => db'[d].status = CLAIMED
          /\ (db'[d].status = EXPIRED /\ db[d].status # EXPIRED) =>
               (db'[d].recipient = NoUser /\ db'[d].claimed_at = NULL)
    ]_vars

\* a claim request that came after the sweep has failed on the Expired donation
C30_Witness ==
  /\ resp.op = "claim" /\ ~resp.success
  /\ \E d \in Stored : db[d].status = EXPIRED /\ db[d].recipient = NoUser

====
